---- MODULE Spec2Model ----
(***************************************************************************)
(* Reverse WebSocket transport of philia (src/lib/ws-reverse/server.ts):   *)
(* class Server.  The model covers the connection handler of init(), the   *)
(* 'message' handler that dispatches events to the listener registry,      *)
(* on/off, callApi with its per-call 'message' handler, and dispose().     *)
(*                                                                         *)
(* The ws library is the environment: wss.clients holds every socket from  *)
(* its upgrade until its 'close' event, ws.close() starts a close          *)
(* handshake during which frames of the peer are still delivered, and      *)
(* emit('message') calls a snapshot of the socket's listeners in the order *)
(* they were attached and stops at the first one that throws.              *)
(***************************************************************************)
EXTENDS Integers, Sequences, FiniteSets, TLC

\* ---- bounds ----
MaxSockets   == 3   \* connection attempts over the life of the server
MaxCalls     == 2   \* callApi invocations
MaxClock     == 1   \* last value of Date.now() (the first is 0)
MaxListeners == 2   \* registrations held by the registry at one time
NumCallbacks == 2   \* distinct listener functions

Sockets   == 1..MaxSockets
Callbacks == 1..NumCallbacks

\* ---- JavaScript values ----
Absent == "<undefined>"          \* a property the object does not carry
WILDCARD == "*"

Digit(d) == <<"0", "1", "2", "3", "4", "5", "6", "7", "8", "9">>[d + 1]

RECURSIVE toString(_)
\* Number.prototype.toString() of a non-negative integer
toString(n) == IF n < 10 THEN Digit(n) ELSE toString(n \div 10) \o Digit(n % 10)

\* `${v}` of a string or of undefined
Template(v) == IF v = Absent THEN "undefined" ELSE v

\* a || b on strings and undefined: "" and undefined are falsy
OrElse(a, b) == IF a = Absent \/ a = "" THEN b ELSE a

NoClientsError == "No WebSocket clients connected"
ApiFailedError == "API call failed"
TypeErrorMsg   == "TypeError"

\* ---- inbound frames ----
\* json: "invalid" (JSON.parse throws), "null", "scalar" (number, string or
\* boolean) or "object"; the other fields are the properties of an object.
Frame(j, pt, mt, rt, nt, met, e, st, d, m) ==
    [json |-> j, post_type |-> pt, message_type |-> mt, request_type |-> rt,
     notice_type |-> nt, meta_event_type |-> met,
     echo |-> e, status |-> st, data |-> d, message |-> m]

NonObject(j) == Frame(j, Absent, Absent, Absent, Absent, Absent, Absent, Absent, Absent, Absent)
EventFrame(pt, mt, rt, nt, met) == Frame("object", pt, mt, rt, nt, met, Absent, Absent, Absent, Absent)
ResponseFrame(e, st, d, m) == Frame("object", Absent, Absent, Absent, Absent, Absent, e, st, d, m)

Tokens == {toString(t) : t \in 0..MaxClock}

MalformedFrames == {NonObject("invalid"), NonObject("null"), NonObject("scalar"),
                    EventFrame(Absent, Absent, Absent, Absent, Absent)}

WellFormedEvents == {EventFrame("message", "private", Absent, Absent, Absent),
                     EventFrame("notice", Absent, Absent, "poke", Absent)}

OtherEvents == {EventFrame("message", Absent, Absent, Absent, Absent),
                EventFrame("notice", Absent, "friend", "poke", Absent)}

ResponseFrames ==
    {ResponseFrame(e, "ok", d, Absent) : e \in Tokens, d \in {"d1", "d2"}}
    \cup {ResponseFrame(e, "failed", Absent, m) : e \in Tokens, m \in {Absent, "", "m1"}}

Frames == MalformedFrames \cup WellFormedEvents \cup OtherEvents \cup ResponseFrames

\* what a listener does when it is invoked: it returns, it throws, or it
\* calls off on itself and returns
Behaviours == {"return", "throw", "off"}

OnKeys == {WILDCARD, "message.private", "notice.poke"}

VARIABLES
    wss,        \* "unset" before init(), then "listening", "closed" after dispose()
    clients,    \* wss.clients in insertion order
    sock,       \* per socket: "none", "accepted", "rejected" (closing), "closed"
    handlers,   \* per socket: its 'message' listeners, 0 = the event handler, c = handler of call c
    listeners,  \* this.listeners: key -> sequence of callbacks
    calls,      \* the promises returned by callApi, in order of issue
    outbox,     \* per socket: the echo of every request transmitted to it
    clock,      \* Date.now()
    running,    \* FALSE once an uncaught exception has ended the process
    last        \* what the operation that ran last did

vars == <<wss, clients, sock, handlers, listeners, calls, outbox, clock, running, last>>

Idle == [op |-> "none"]

\* ---- listener registry ----
Get(reg, key) == IF key \in DOMAIN reg THEN reg[key] ELSE <<>>

Registered(reg) == {cb \in Callbacks : \E k \in DOMAIN reg : \E i \in 1..Len(reg[k]) : reg[k][i] = cb}

RECURSIVE Total(_, _)
Total(reg, keys) ==
    IF keys = {} THEN 0
    ELSE LET k == CHOOSE x \in keys : TRUE IN Len(reg[k]) + Total(reg, keys \ {k})

\* Array.prototype.indexOf, 1-based, 0 when absent
IndexOf(seq, x) ==
    IF \E i \in 1..Len(seq) : seq[i] = x
    THEN CHOOSE i \in 1..Len(seq) : seq[i] = x /\ \A j \in 1..(i - 1) : seq[j] # x
    ELSE 0

\* Array.prototype.splice(index, 1)
Splice(seq, i) == SubSeq(seq, 1, i - 1) \o SubSeq(seq, i + 1, Len(seq))

\* on(type, listener) / on(listener)
RegOn(reg, key, cb) ==
    [k \in DOMAIN reg \cup {key} |-> IF k = key THEN Append(Get(reg, k), cb) ELSE reg[k]]

\* off(listener)
RegOff(reg, cb) ==
    LET cut(k) == IF IndexOf(reg[k], cb) = 0 THEN reg[k] ELSE Splice(reg[k], IndexOf(reg[k], cb))
        keep   == {k \in DOMAIN reg : cut(k) # <<>>}
    IN  [k \in keep |-> cut(k)]

\* a getEventDetail that tests notice_type before request_type
getEventDetailNoticeFirst(event) ==
    IF event.message_type # Absent THEN event.message_type
    ELSE IF event.notice_type # Absent THEN event.notice_type
    ELSE IF event.request_type # Absent THEN event.request_type
    ELSE IF event.meta_event_type # Absent THEN event.meta_event_type
    ELSE ""

\* getEventDetail(event) of an object
getEventDetail(event) ==
    IF event.message_type # Absent THEN event.message_type
    ELSE IF event.request_type # Absent THEN event.request_type
    ELSE IF event.notice_type # Absent THEN event.notice_type
    ELSE IF event.meta_event_type # Absent THEN event.meta_event_type
    ELSE ""

\* `${event.post_type}.${this.getEventDetail(event)}`
TypeKey(event) == Template(event.post_type) \o "." \o getEventDetail(event)

\* ---- the 'message' handler of an accepted connection ----

\* for (const listener of <this.listeners.get(key) || []>) listener(event):
\* the loop reads the live array by index, so a listener that unregisters
\* itself shifts the rest of the array under the loop.
RECURSIVE RunListeners(_, _, _, _, _)
RunListeners(reg, key, i, log, beh) ==
    IF i > Len(Get(reg, key)) THEN [reg |-> reg, log |-> log, raised |-> 0]
    ELSE LET cb   == Get(reg, key)[i]
             log2 == Append(log, <<key, cb>>)
         IN  IF beh[cb] = "throw" THEN [reg |-> reg, log |-> log2, raised |-> cb]
             ELSE IF beh[cb] = "off" THEN RunListeners(RegOff(reg, cb), key, i + 1, log2, beh)
             ELSE RunListeners(reg, key, i + 1, log2, beh)

\* ws.on('message', data => { ... }) of init()
EventHandler(st, frame, beh) ==
    IF frame.json = "invalid" THEN [st EXCEPT !.threw = TRUE]       \* JSON.parse throws
    ELSE LET g == RunListeners(st.reg, WILDCARD, 1, st.log, beh) IN
         IF g.raised # 0
         THEN [st EXCEPT !.reg = g.reg, !.log = g.log, !.threw = TRUE, !.raised = g.raised]
         ELSE IF frame.json # "object"
              \* null.post_type and ('message_type' in 5) are TypeErrors
              THEN [st EXCEPT !.reg = g.reg, !.log = g.log, !.threw = TRUE]
         ELSE LET t == RunListeners(g.reg, TypeKey(frame), 1, g.log, beh) IN
              [st EXCEPT !.reg = t.reg, !.log = t.log, !.key = TypeKey(frame),
                         !.threw = (t.raised # 0), !.raised = t.raised]

\* ---- the per-call 'message' handler of callApi ----
Remove(seq, x) == IF IndexOf(seq, x) = 0 THEN seq ELSE Splice(seq, IndexOf(seq, x))

\* a handler that resolves whatever the status of the response
SettleIgnoringStatus(call, response) ==
    IF call.state # "pending" THEN call
    ELSE [call EXCEPT !.state = "resolved", !.result = response.data]

\* resolve(response.data) / reject(new Error(response.message || 'API call failed'))
Settle(call, response) ==
    IF call.state # "pending" THEN call
    ELSE IF response.status = "ok"
         THEN [call EXCEPT !.state = "resolved", !.result = response.data]
         ELSE [call EXCEPT !.state = "rejected", !.result = OrElse(response.message, ApiFailedError)]

CallHandler(st, c, frame) ==
    IF frame.json \in {"invalid", "null"} THEN [st EXCEPT !.threw = TRUE]
    ELSE IF frame.json = "object" /\ frame.echo = st.calls[c].echo
         THEN [st EXCEPT !.hs = Remove(st.hs, c),
                         !.calls[c] = Settle(st.calls[c], frame),
                         !.done = st.done \cup {c}]
         ELSE st

\* ws.emit('message', data): the listeners attached when the frame arrives,
\* in order of attachment, up to the first one that throws
RECURSIVE EmitFrom(_, _, _, _, _)
EmitFrom(snapshot, i, st, frame, beh) ==
    IF i > Len(snapshot) \/ st.threw THEN st
    ELSE EmitFrom(snapshot, i + 1,
                  IF snapshot[i] = 0 THEN EventHandler(st, frame, beh)
                  ELSE CallHandler(st, snapshot[i], frame),
                  frame, beh)

Emit(s, frame, beh) ==
    EmitFrom(handlers[s], 1,
             [reg |-> listeners, calls |-> calls, hs |-> handlers[s],
              log |-> <<>>, key |-> Absent, threw |-> FALSE, raised |-> 0, done |-> {}],
             frame, beh)

\* ---- observers ----
Pending == {c \in 1..Len(calls) : calls[c].state = "pending"}
PendingOn(s) == {c \in Pending : calls[c].ws = s}
ActiveSockets == {s \in Sockets : sock[s] = "accepted"}
Attached(s) == {handlers[s][i] : i \in 1..Len(handlers[s])} \ {0}

\* the listeners the registry holds for a frame when its dispatch begins
Plan(reg, frame) ==
    [i \in 1..Len(Get(reg, WILDCARD)) |-> <<WILDCARD, Get(reg, WILDCARD)[i]>>]
    \o (IF frame.json = "object"
        THEN [i \in 1..Len(Get(reg, TypeKey(frame))) |-> <<TypeKey(frame), Get(reg, TypeKey(frame))[i]>>]
        ELSE <<>>)

\* the behaviours of the registered listeners during one dispatch, drawn
\* from bs; a callback that is not registered is never invoked
Choices(reg, bs) ==
    {beh \in [Callbacks -> bs \cup {"return"}] :
        \A cb \in Callbacks \ Registered(reg) : beh[cb] = "return"}

\* ---- operations ----
Init ==
    /\ wss = "unset"
    /\ clients = <<>>
    /\ sock = [s \in Sockets |-> "none"]
    /\ handlers = [s \in Sockets |-> <<>>]
    /\ listeners = <<>>
    /\ calls = <<>>
    /\ outbox = [s \in Sockets |-> <<>>]
    /\ clock = 0
    /\ running = TRUE
    /\ last = Idle

\* init()
init ==
    /\ running /\ wss = "unset"
    /\ wss' = "listening"
    /\ last' = Idle
    /\ UNCHANGED <<clients, sock, handlers, listeners, calls, outbox, clock, running>>

\* a connection handler that rejects from the third client on
ConnectionOffByOne(s) ==
    /\ running /\ wss = "listening" /\ sock[s] = "none"
    /\ clients' = Append(clients, s)
    /\ IF Len(clients') > 2
       THEN /\ sock' = [sock EXCEPT ![s] = "rejected"]
            /\ UNCHANGED handlers
       ELSE /\ sock' = [sock EXCEPT ![s] = "accepted"]
            /\ handlers' = [handlers EXCEPT ![s] = <<0>>]
    /\ last' = [op |-> "connection", ws |-> s, activeBefore |-> ActiveSockets]
    /\ UNCHANGED <<wss, listeners, calls, outbox, clock, running>>

\* wss.on('connection', ws => ...): ws is in wss.clients when the handler runs
Connection(s) ==
    /\ running /\ wss = "listening" /\ sock[s] = "none"
    /\ clients' = Append(clients, s)
    /\ IF Len(clients') > 1
       THEN /\ sock' = [sock EXCEPT ![s] = "rejected"]          \* ws.close()
            /\ UNCHANGED handlers
       ELSE /\ sock' = [sock EXCEPT ![s] = "accepted"]
            /\ handlers' = [handlers EXCEPT ![s] = <<0>>]
    /\ last' = [op |-> "connection", ws |-> s, activeBefore |-> ActiveSockets]
    /\ UNCHANGED <<wss, listeners, calls, outbox, clock, running>>

\* a 'close' handler that fails the calls pending on the socket
CloseRejectingPending(s) ==
    /\ running /\ sock[s] \in {"accepted", "rejected"}
    /\ sock' = [sock EXCEPT ![s] = "closed"]
    /\ clients' = Remove(clients, s)
    /\ calls' = [c \in 1..Len(calls) |->
                    IF calls[c].state = "pending" /\ calls[c].ws = s
                    THEN [calls[c] EXCEPT !.state = "rejected", !.result = "connection closed"]
                    ELSE calls[c]]
    /\ last' = Idle
    /\ UNCHANGED <<wss, handlers, listeners, outbox, clock, running>>

\* the socket's 'close' event: the peer closed an accepted connection, or
\* the close handshake of a rejected one completed
Close(s) ==
    /\ running /\ sock[s] \in {"accepted", "rejected"}
    /\ sock' = [sock EXCEPT ![s] = "closed"]
    /\ clients' = Remove(clients, s)
    /\ last' = Idle
    /\ UNCHANGED <<wss, handlers, listeners, calls, outbox, clock, running>>

\* a frame arrives on a socket that has not closed
Message(s, frame, beh) ==
    /\ running /\ sock[s] \in {"accepted", "rejected"}
    /\ LET r == Emit(s, frame, beh) IN
       /\ listeners' = r.reg
       /\ calls' = r.calls
       /\ handlers' = [handlers EXCEPT ![s] = r.hs]
       /\ running' \in (IF r.threw THEN {TRUE, FALSE} ELSE {TRUE})
       /\ last' = [op |-> "message", ws |-> s, frame |-> frame,
                   accepted |-> (sock[s] = "accepted"),
                   pending |-> PendingOn(s) \cap Attached(s),
                   matched |-> {c \in PendingOn(s) \cap Attached(s) :
                                    frame.json = "object" /\ frame.echo = calls[c].echo},
                   plan |-> Plan(listeners, frame),
                   key |-> r.key,
                   log |-> r.log, threw |-> r.threw, raised |-> r.raised,
                   done |-> r.done]
    /\ UNCHANGED <<wss, clients, sock, outbox, clock>>

\* on(type, listener) and on(listener)
on(key, cb) ==
    /\ running
    /\ Total(listeners, DOMAIN listeners) < MaxListeners
    /\ listeners' = RegOn(listeners, key, cb)
    /\ last' = Idle
    /\ UNCHANGED <<wss, clients, sock, handlers, calls, outbox, clock, running>>

\* off(listener)
off(cb) ==
    /\ running
    /\ listeners' = RegOff(listeners, cb)
    /\ last' = [op |-> "off", cb |-> cb]
    /\ UNCHANGED <<wss, clients, sock, handlers, calls, outbox, clock, running>>

\* callApi(action, params)
callApi ==
    /\ running /\ Len(calls) < MaxCalls
    /\ LET echo == toString(clock)
           c    == Len(calls) + 1
           fail(msg) == [echo |-> echo, ws |-> 0, state |-> "rejected", result |-> msg]
       IN  /\ IF wss = "unset"                       \* this.wss.clients of undefined
              THEN /\ calls' = Append(calls, fail(TypeErrorMsg))
                   /\ UNCHANGED <<handlers, outbox>>
              ELSE IF Len(clients) = 0
              THEN /\ calls' = Append(calls, fail(NoClientsError))
                   /\ UNCHANGED <<handlers, outbox>>
              ELSE LET ws == clients[1] IN
                   /\ calls' = Append(calls, [echo |-> echo, ws |-> ws,
                                              state |-> "pending", result |-> Absent])
                   /\ handlers' = [handlers EXCEPT ![ws] = Append(@, c)]
                   \* ws.send: a socket that is closing discards the frame
                   /\ outbox' = IF sock[ws] = "accepted"
                                THEN [outbox EXCEPT ![ws] = Append(@, echo)]
                                ELSE outbox
           /\ last' = [op |-> "callApi", call |-> c, activeBefore |-> ActiveSockets]
    /\ UNCHANGED <<wss, clients, sock, listeners, clock, running>>

\* dispose(): wss.close() stops the listening endpoint; ws 7 also terminates
\* every client, ws 8 leaves the clients connected
dispose ==
    /\ running /\ wss # "unset"
    /\ wss' = "closed"
    /\ \/ UNCHANGED <<clients, sock>>
       \/ /\ clients # <<>>
          /\ clients' = <<>>
          /\ sock' = [s \in Sockets |-> IF sock[s] \in {"accepted", "rejected"} THEN "closed" ELSE sock[s]]
    /\ last' = [op |-> "dispose"]
    /\ UNCHANGED <<handlers, listeners, calls, outbox, clock, running>>

\* Date.now() advances
Tick ==
    /\ running /\ clock < MaxClock
    /\ clock' = clock + 1
    /\ last' = Idle
    /\ UNCHANGED <<wss, clients, sock, handlers, listeners, calls, outbox, running>>

Next ==
    \/ init
    \/ \E s \in Sockets : Connection(s)
    \/ \E s \in Sockets : Close(s)
    \/ \E s \in Sockets, f \in Frames, beh \in Choices(listeners, Behaviours) : Message(s, f, beh)
    \/ \E k \in OnKeys, cb \in Callbacks : on(k, cb)
    \/ \E cb \in Callbacks : off(cb)
    \/ callApi
    \/ dispose
    \/ Tick

Spec == Init /\ [][Next]_vars

\* ---- the call correlator alone: no listener is ever registered ----
Quiet == [cb \in Callbacks |-> "return"]

CallFrames ==
    {ResponseFrame(e, "ok", "d1", Absent) : e \in Tokens}
    \cup {ResponseFrame(e, "failed", Absent, "m1") : e \in Tokens}
    \cup {NonObject("invalid")}

NextCalls ==
    \/ init
    \/ \E s \in Sockets : Connection(s)
    \/ \E s \in Sockets : Close(s)
    \/ \E s \in Sockets, f \in CallFrames : Message(s, f, Quiet)
    \/ callApi
    \/ Tick

SpecCalls == Init /\ [][NextCalls]_vars

\* ---- the event dispatcher alone: one accepted connection, no call ----
InitDispatch ==
    /\ wss = "listening"
    /\ clients = <<1>>
    /\ sock = [s \in Sockets |-> IF s = 1 THEN "accepted" ELSE "none"]
    /\ handlers = [s \in Sockets |-> IF s = 1 THEN <<0>> ELSE <<>>]
    /\ listeners = <<>>
    /\ calls = <<>>
    /\ outbox = [s \in Sockets |-> <<>>]
    /\ clock = 0
    /\ running = TRUE
    /\ last = Idle

EventFrames == MalformedFrames \cup WellFormedEvents \cup OtherEvents

NextDispatch ==
    \/ \E f \in EventFrames, beh \in Choices(listeners, Behaviours) : Message(1, f, beh)
    \/ \E k \in OnKeys, cb \in Callbacks : on(k, cb)
    \/ \E cb \in Callbacks : off(cb)

SpecDispatch == InitDispatch /\ [][NextDispatch]_vars

\* ---- dispatcher and correlator on one accepted connection ----
MixedFrames == CallFrames \cup {EventFrame("message", "private", Absent, Absent, Absent)}

NextMixed ==
    \/ \E f \in MixedFrames, beh \in Choices(listeners, {"throw"}) : Message(1, f, beh)
    \/ \E cb \in Callbacks : on(WILDCARD, cb)
    \/ callApi
    \/ Tick

SpecMixed == InitDispatch /\ [][NextMixed]_vars

\* ---- the settlement of calls on one accepted connection, every response shape ----
NextSettle ==
    \/ \E f \in ResponseFrames \cup {NonObject("scalar")} : Message(1, f, Quiet)
    \/ callApi
    \/ Tick

SpecSettle == InitDispatch /\ [][NextSettle]_vars

\* ---- the connection lifecycle: no listener, calls issued at one clock value ----
ConnFrames == {ResponseFrame(toString(0), "ok", "d1", Absent)}

NextConn ==
    \/ init
    \/ \E s \in Sockets : Connection(s)
    \/ \E s \in Sockets : Close(s)
    \/ \E s \in Sockets, f \in ConnFrames : Message(s, f, Quiet)
    \/ callApi
    \/ dispose

SpecConn == Init /\ [][NextConn]_vars

\* ---- properties ----
IsMessage == last.op = "message"

\* C1: a frame whose echo matches a pending call is consumed by the call
\* correlator only: no listener, wildcard or keyed, is invoked for it.
C1_ResponseReachesNoListener ==
    (IsMessage /\ last.matched # {}) => last.log = <<>>

\* C2: dispatching a well-formed event invokes the wildcard listeners and then
\* the listeners of its key "P.D", once per registration and in registration
\* order, and no other listener (stated for the dispatches during which no
\* listener changes the registry).
C2_DispatchInvokesExactlyThePlan ==
    (IsMessage /\ last.accepted /\ last.frame \in WellFormedEvents
               /\ Plan(listeners, last.frame) = last.plan) => last.log = last.plan

\* C3: a frame on the active connection whose echo is the token of a pending
\* call completes that call and removes its handler while that frame is
\* processed, whatever the listeners do.
C3_MatchingResponseCompletes ==
    (IsMessage /\ last.accepted) =>
        \A c \in last.matched : calls[c].state # "pending" /\ c \notin Attached(last.ws)

\* C4: with two calls pending on the active connection, a response completes
\* the one call it answers with its own status and data and leaves the other
\* call pending, whatever the order of the responses.
C4_ResponsesMatchedIndependently ==
    (IsMessage /\ last.accepted /\ Cardinality(last.pending) >= 2 /\ last.matched # {}) =>
        /\ Cardinality(last.done) = 1
        /\ \A c \in last.pending \ last.done : calls[c].state = "pending"

\* C5: the tokens of the calls pending on one connection are pairwise distinct.
C5_PendingTokensDistinct ==
    \A c1, c2 \in Pending :
        (c1 # c2 /\ calls[c1].ws = calls[c2].ws) => calls[c1].echo # calls[c2].echo

\* C6: once a response has completed a call, a later frame carrying the same
\* token completes no call and changes no pending entry.
C6_TokenMatchedOnce ==
    [][(last'.op = "message"
        /\ \E c \in 1..Len(calls) : /\ calls[c].ws = last'.ws
                                    /\ calls[c].state # "pending"
                                    /\ last'.frame.json = "object"
                                    /\ calls[c].echo = last'.frame.echo)
       => (calls' = calls /\ handlers' = handlers)]_vars

\* C7: a call issued on a started server while no connection is active fails
\* at once with the no-connection error, sends nothing and leaves no handler.
C7_NoConnectionFailsAtOnce ==
    (last.op = "callApi" /\ wss # "unset" /\ last.activeBefore = {}) =>
        /\ calls[last.call].state = "rejected"
        /\ calls[last.call].result = NoClientsError
        /\ \A s \in Sockets : last.call \notin Attached(s)
        /\ \A s \in Sockets : \A i \in 1..Len(outbox[s]) : outbox[s][i] # calls[last.call].echo
                                  \/ \E c \in 1..(last.call - 1) : calls[c].ws = s

\* C8 as stated: a call completed by a response resolves with data on status
\* "ok", and otherwise fails with the message when the response carries one
\* and with the default message when it carries none.
C8_FailsWithMessageWhenPresent ==
    IsMessage =>
        \A c \in last.done :
            IF last.frame.status = "ok"
            THEN calls[c].state = "resolved" /\ calls[c].result = last.frame.data
            ELSE /\ calls[c].state = "rejected"
                 /\ calls[c].result = (IF last.frame.message # Absent
                                       THEN last.frame.message ELSE ApiFailedError)

\* C8 amended: a call completed by a response resolves with data on status
\* "ok"; on any other status it fails, with the message when the response
\* carries a non-empty one and with the default message when the message is
\* absent or empty; it never resolves on a status other than "ok".
C8_SettledByStatus ==
    IsMessage =>
        \A c \in last.done :
            /\ last.frame.status = "ok" =>
                   calls[c].state = "resolved" /\ calls[c].result = last.frame.data
            /\ last.frame.status # "ok" =>
                   /\ calls[c].state = "rejected"
                   /\ last.frame.message \notin {Absent, ""} => calls[c].result = last.frame.message
                   /\ last.frame.message \in {Absent, ""} => calls[c].result = ApiFailedError

\* a call has just failed on a response that carries a message
C8_Witness ==
    /\ IsMessage /\ last.done # {}
    /\ last.frame.status = "failed" /\ last.frame.message = "m1"
    /\ \A c \in last.done : calls[c].state = "rejected" /\ calls[c].result = "m1"

\* C9: when a listener raises, every listener ordered after it for that frame
\* (the remaining wildcard listeners and the listeners of the key) is still
\* invoked (stated for the dispatches during which no listener changes the
\* registry).
C9_RaisingListenerDoesNotStopDispatch ==
    (IsMessage /\ last.raised # 0 /\ Plan(listeners, last.frame) = last.plan) =>
        last.log = last.plan

\* C10: a frame that is not JSON, or has no discriminator, is dropped: no error
\* leaves the handler, no listener runs and the process goes on.
C10_MalformedFrameDropped ==
    (IsMessage /\ last.accepted /\ last.frame \in MalformedFrames) =>
        ~last.threw /\ last.log = <<>> /\ running

\* C11: at most one socket is accepted at any time; a connection attempt that
\* arrives while a connection is active is closed, and the active connection
\* keeps its handlers, and the calls and the registry are as they were.
C11_AtMostOneAccepted ==
    [][/\ Cardinality(ActiveSockets') <= 1
       /\ (last'.op = "connection" /\ ActiveSockets # {}) =>
              /\ sock'[last'.ws] = "rejected"
              /\ ActiveSockets' = ActiveSockets
              /\ handlers' = handlers
              /\ calls' = calls
              /\ listeners' = listeners]_vars

\* a connection attempt has just been closed while the active connection
\* holds a pending call
C11_Witness ==
    /\ last.op = "connection" /\ last.activeBefore # {}
    /\ sock[last.ws] = "rejected"
    /\ ActiveSockets = last.activeBefore
    /\ \E c \in Pending : calls[c].ws \in ActiveSockets

\* C12: a frame sent by a rejected connection invokes no listener and
\* completes no pending call.
C12_RejectedSocketIsInert ==
    (IsMessage /\ ~last.accepted) => (last.log = <<>> /\ last.done = {})

\* C13: a connection attempt that arrives while no connection is active is
\* accepted.
C13_AttemptAcceptedWhenNoneActive ==
    (last.op = "connection" /\ last.activeBefore = {}) => sock[last.ws] = "accepted"

\* C14: after off(cb) returns, cb is in no key's listener sequence.
C14_OffRemovesEveryRegistration ==
    last.op = "off" => last.cb \notin Registered(listeners)

\* C15: after dispose the endpoint is closed and no connection is active, so
\* no frame is dispatched any more.
C15_DisposeClosesTheConnection ==
    wss = "closed" => (ActiveSockets = {} /\ ~(IsMessage /\ last.accepted))

\* C16: a call that is pending when its socket closes is never completed: not
\* by the close, not by a later connection, not by any later frame.
C16_OrphanedCallNeverCompleted ==
    [][\A c \in 1..Len(calls) :
          (calls[c].state = "pending" /\ calls[c].ws # 0 /\ sock'[calls[c].ws] = "closed")
              => (c \in 1..Len(calls') /\ calls'[c] = calls[c])]_vars

\* a later connection has just received a frame that carries the token of a
\* call left pending on a closed socket
C16_Witness ==
    /\ IsMessage /\ last.accepted /\ last.frame.json = "object"
    /\ \E c \in Pending : /\ calls[c].ws # 0
                          /\ sock[calls[c].ws] = "closed"
                          /\ calls[c].ws # last.ws
                          /\ calls[c].echo = last.frame.echo

\* C17: a frame with no matching token, no post_type and no discriminator
\* invokes no listener and completes no call.
C17_UnclassifiableFrameIsInert ==
    (IsMessage /\ last.matched = {} /\ last.frame.json = "object"
               /\ last.frame.post_type = Absent
               /\ last.frame.message_type = Absent /\ last.frame.request_type = Absent
               /\ last.frame.notice_type = Absent /\ last.frame.meta_event_type = Absent) =>
        (last.log = <<>> /\ last.done = {})

\* the discriminator field that belongs to a post_type
OwnDiscriminator(event) ==
    CASE event.post_type = "message"    -> event.message_type
      [] event.post_type = "notice"     -> event.notice_type
      [] event.post_type = "request"    -> event.request_type
      [] event.post_type = "meta_event" -> event.meta_event_type
      [] OTHER -> Absent

Discriminators(event) ==
    <<event.message_type, event.request_type, event.notice_type, event.meta_event_type>>

\* C18 as stated: the key of an event with post_type P is P, a dot and the
\* value of the discriminator field that belongs to P, whatever other
\* discriminator fields the event carries, and P and a dot when it carries
\* none of the four.
C18_KeyUsesOwnDiscriminator ==
    (IsMessage /\ last.key # Absent /\ last.frame.post_type # Absent) =>
        /\ OwnDiscriminator(last.frame) # Absent =>
               last.key = last.frame.post_type \o "." \o OwnDiscriminator(last.frame)
        /\ (\A i \in 1..4 : Discriminators(last.frame)[i] = Absent) =>
               last.key = last.frame.post_type \o "."

\* C18 amended: the key is P, a dot and the value of the first discriminator
\* field the event carries, in the order message_type, request_type,
\* notice_type, meta_event_type; it is P and a dot when it carries none.
C18_KeyUsesFirstDiscriminator ==
    (IsMessage /\ last.key # Absent /\ last.frame.post_type # Absent) =>
        LET d == Discriminators(last.frame)
            present == {i \in 1..4 : d[i] # Absent}
        IN  IF present = {} THEN last.key = last.frame.post_type \o "."
            ELSE \E i \in present :
                    /\ \A j \in present : i <= j
                    /\ last.key = last.frame.post_type \o "." \o d[i]

\* an event that carries request_type and notice_type has been dispatched
C18_Witness ==
    /\ IsMessage /\ last.frame.post_type = "notice"
    /\ last.frame.request_type = "friend" /\ last.frame.notice_type = "poke"
    /\ last.key = "notice.friend"

\* the number of entries of a plan or a log that name a callback
Times(entries, cb) == Cardinality({i \in 1..Len(entries) : entries[i][2] = cb})

\* C19: when listeners unregister themselves during a dispatch, every
\* listener that was registered for the frame when the dispatch began and
\* whose registrations are untouched is invoked once per registration.
C19_SelfRemovalSkipsNoListener ==
    (IsMessage /\ ~last.threw) =>
        \A cb \in Callbacks :
            Times(Plan(listeners, last.frame), cb) = Times(last.plan, cb)
                => Times(last.log, cb) = Times(last.plan, cb)

\* C20: the socket callApi sends to and attaches its handler to is the
\* accepted connection.
C20_CallTargetsAcceptedSocket ==
    (last.op = "callApi" /\ calls[last.call].ws # 0) =>
        sock[calls[last.call].ws] = "accepted"

\* ---- what holds of the failing claims outside their failing cases ----

\* C2 when no listener raises: the invocations are the wildcard listeners
\* followed by the listeners of the key, in registration order.
RoutingWhenListenersReturn ==
    (IsMessage /\ last.accepted /\ last.frame \in WellFormedEvents /\ ~last.threw
               /\ Plan(listeners, last.frame) = last.plan) => last.log = last.plan

\* C4 when the pending tokens differ and no listener is registered: a response
\* completes exactly the call that carries its token and leaves every other
\* call pending.
IndependentWhenTokensDiffer ==
    (IsMessage /\ last.accepted /\ last.matched # {}
               /\ \A c1, c2 \in last.pending : c1 # c2 => calls[c1].echo # calls[c2].echo) =>
        /\ Cardinality(last.done) = 1
        /\ last.done = last.matched
        /\ \A c \in last.pending \ last.done : calls[c].state = "pending"

\* C6 for one call: a completed call never changes again, and a frame whose
\* token no pending call of its socket carries changes no call and no handler.
CompletedAtMostOnce ==
    [][/\ \A c \in 1..Len(calls) : calls[c].state # "pending" => calls'[c] = calls[c]
       /\ (last'.op = "message" /\ last'.matched = {}) =>
              (calls' = calls /\ handlers' = handlers)]_vars

====
